---- MODULE Spec2Model ----
(***************************************************************************)
(* A model of src/src/bvh.rs: the SAH construction of a bounding volume    *)
(* hierarchy (BVHNode::build, BVH::build) and its AABB-pruned traversal     *)
(* (BVHNode::traverse_recursive, BVH::traverse).                            *)
(*                                                                          *)
(* Numbers.  Shape coordinates are small integers, which f32 holds          *)
(* exactly.  A box centre is min + size/2; the model keeps centres, and    *)
(* the box of the centres, DOUBLED (min + max), so that they stay          *)
(* integers.  Ratios of centre differences are unchanged by the doubling;  *)
(* the one absolute comparison (against EPSILON) is scaled accordingly.    *)
(* The bucket number trunc(rel * (6 - 0.01)) is computed exactly as        *)
(* trunc(599 * num / (100 * den)): for rel = num/den with den < 599 the    *)
(* product is never within 1/(100*den) of an integer other than 0, so the  *)
(* f32 rounding of the division and of the product cannot change the       *)
(* truncation.  SAH costs are kept as fractions; a division by a zero      *)
(* surface area, and 0 * infinity, give a non-finite f32 (NaN or +inf),    *)
(* which no `cost < min_cost` comparison accepts.                           *)
(*                                                                          *)
(* The recursion of build and of traverse_recursive is unfolded with an    *)
(* explicit stack of pending calls: one step of the model is one call.     *)
(* A pending call is run depth first, left child before right child, as    *)
(* the nested calls of the source are.                                     *)
(***************************************************************************)
EXTENDS Integers, Sequences, FiniteSets, TLC

\* The largest number of shapes in a scene.
MaxShapes == 7

\* const NUM_BUCKETS: usize = 6;
NUM_BUCKETS == 6

\* `if indices.len() <= 5`: the largest group that is never split.
LEAF_SIZE == 5

\* f32::INFINITY, as a coordinate no shape reaches.
INFINITY == 1000

\* EPSILON = 0.00001 = EPSILON_NUM / EPSILON_DEN
EPSILON_NUM == 1
EPSILON_DEN == 100000

Axes == 1..3

Min2(a, b) == IF a <= b THEN a ELSE b
Max2(a, b) == IF a >= b THEN a ELSE b

-----------------------------------------------------------------------------
(* The AABB primitive (aabb.rs).                                           *)

\* AABB::empty(): the identity of join; also Default::default().
AABB_empty ==
  [min |-> <<INFINITY, INFINITY, INFINITY>>,
   max |-> <<-INFINITY, -INFINITY, -INFINITY>>]

\* AABB::with_bounds(min, max)
AABB_with_bounds(mn, mx) == [min |-> mn, max |-> mx]

\* AABB::join: the smallest box containing both.
AABB_join(a, b) ==
  [min |-> <<Min2(a.min[1], b.min[1]), Min2(a.min[2], b.min[2]), Min2(a.min[3], b.min[3])>>,
   max |-> <<Max2(a.max[1], b.max[1]), Max2(a.max[2], b.max[2]), Max2(a.max[3], b.max[3])>>]

\* AABB::grow: the smallest box containing the box and the point.
AABB_grow(a, p) ==
  [min |-> <<Min2(a.min[1], p[1]), Min2(a.min[2], p[2]), Min2(a.min[3], p[3])>>,
   max |-> <<Max2(a.max[1], p[1]), Max2(a.max[2], p[2]), Max2(a.max[3], p[3])>>]

\* AABB::center, doubled: 2 * (min + size / 2) = min + max.
AABB_center(a) == <<a.min[1] + a.max[1], a.min[2] + a.max[2], a.min[3] + a.max[3]>>

\* AABB::size
AABB_size(a) == <<a.max[1] - a.min[1], a.max[2] - a.min[2], a.max[3] - a.min[3]>>

\* AABB::is_empty: the box holds no point.
AABB_is_empty(a) == \E i \in Axes : a.min[i] > a.max[i]

\* AABB::surface_area of a box that is not empty.
AABB_surface_area(a) ==
  LET s == AABB_size(a)
  IN  2 * (s[1] * s[2] + s[1] * s[3] + s[2] * s[3])

\* AABB::largest_axis: X only if strictly the largest, else Y if larger than Z.
AABB_largest_axis(a) ==
  LET s == AABB_size(a)
  IN  IF s[1] > s[2] /\ s[1] > s[3] THEN 1
      ELSE IF s[2] > s[3] THEN 2 ELSE 3

\* AABB::contains of a whole box.
AABB_contains(a, b) ==
  \A i \in Axes : a.min[i] <= b.min[i] /\ b.max[i] <= a.max[i]

-----------------------------------------------------------------------------
(* The ray primitive (ray.rs): the slab test, for rays whose direction has *)
(* components in {-1, 0, 1}.                                                *)

\* The parameter interval in which the ray is inside the slab of axis i.
SlabLo(ray, a, i) ==
  IF ray.direction[i] = 1 THEN a.min[i] - ray.origin[i]
  ELSE IF ray.direction[i] = -1 THEN ray.origin[i] - a.max[i]
  ELSE IF a.min[i] <= ray.origin[i] /\ ray.origin[i] <= a.max[i]
       THEN -(4 * INFINITY) ELSE 4 * INFINITY

SlabHi(ray, a, i) ==
  IF ray.direction[i] = 1 THEN a.max[i] - ray.origin[i]
  ELSE IF ray.direction[i] = -1 THEN ray.origin[i] - a.min[i]
  ELSE IF a.min[i] <= ray.origin[i] /\ ray.origin[i] <= a.max[i]
       THEN 4 * INFINITY ELSE -(4 * INFINITY)

\* Ray::intersects_aabb
intersects_aabb(ray, a) ==
  LET lo == Max2(0, Max2(SlabLo(ray, a, 1), Max2(SlabLo(ray, a, 2), SlabLo(ray, a, 3))))
      hi == Min2(SlabHi(ray, a, 1), Min2(SlabHi(ray, a, 2), SlabHi(ray, a, 3)))
  IN  lo <= hi

-----------------------------------------------------------------------------
(* The inputs: scenes and rays.                                            *)

\* Where a shape sits along the line of its scene.
Positions == {0, 1, 3}

\* The three kinds of scene.
Kinds == {"cube", "plate", "point"}

\* The bounding box of the shape of kind k at position p.
\*   cube:  the documentation's fixture, position (p,p,p) -/+ (1,1,1);
\*   plate: a unit square in the plane z = 0, at p along the y axis;
\*   point: the degenerate box of the point (p,0,0).
ShapeBox(k, p) ==
  IF k = "cube" THEN AABB_with_bounds(<<p - 1, p - 1, p - 1>>, <<p + 1, p + 1, p + 1>>)
  ELSE IF k = "plate" THEN AABB_with_bounds(<<0, p, 0>>, <<1, p + 1, 0>>)
  ELSE AABB_with_bounds(<<p, 0, 0>>, <<p, 0, 0>>)

\* The rays: the fixture's diagonal from the origin, the documentation's ray
\* along +x from the origin, and a ray that runs backwards along y.
Rays ==
  { [origin |-> <<0, 0, 0>>, direction |-> <<1, 1, 1>>],
    [origin |-> <<0, 0, 0>>, direction |-> <<1, 0, 0>>],
    [origin |-> <<0, 2, 0>>, direction |-> <<0, -1, 0>>] }

NoRay == [origin |-> <<0, 0, 0>>, direction |-> <<0, 0, 0>>]

-----------------------------------------------------------------------------
(* BVHNode::build (bvh.rs 52-173), one call.                               *)

\* The value of Body(v), with v evaluated once: a `let` of the source.
With(v, Body(_)) == CHOOSE result \in {Body(x) : x \in {v}} : TRUE

\* shapes[*index].aabb(): indices count from 0, sequences from 1.
shape_aabb_of(shps, index) == shps[index + 1]

\* fn grow_convex_hull: <<join of the boxes, box of the (doubled) centres>>.
grow_convex_hull(convex_hull, shape_aabb) ==
  <<AABB_join(convex_hull[1], shape_aabb),
    AABB_grow(convex_hull[2], AABB_center(shape_aabb))>>

\* for index in &indices { convex_hull = grow_convex_hull(...) }
RECURSIVE convex_hull_loop(_, _, _)
convex_hull_loop(shps, indices, convex_hull) ==
  IF indices = <<>> THEN convex_hull
  ELSE With(grow_convex_hull(convex_hull, shape_aabb_of(shps, Head(indices))),
            LAMBDA grown : convex_hull_loop(shps, Tail(indices), grown))

\* A variant of is_small: `<` for `<=`.
is_small_strict(indices) == Len(indices) < LEAF_SIZE

\* `indices.len() <= 5`
is_small(indices) == Len(indices) <= LEAF_SIZE

\* A variant of split_axis_of: the first axis, whatever the spread.
split_axis_first(centroid_bounds) == 1

\* let split_axis = centroid_bounds.largest_axis();
split_axis_of(centroid_bounds) == AABB_largest_axis(centroid_bounds)

\* `split_axis_size < EPSILON`, with split_axis_size2 the doubled size.
below_epsilon(split_axis_size2) == split_axis_size2 * EPSILON_DEN < 2 * EPSILON_NUM

\* Bucket::empty()
Bucket_empty == [size |-> 0, aabb |-> AABB_empty]

\* Bucket::add_aabb
Bucket_add_aabb(bucket, aabb) ==
  [size |-> bucket.size + 1, aabb |-> AABB_join(bucket.aabb, aabb)]

\* fn join_bucket
join_bucket(a, b) == [size |-> a.size + b.size, aabb |-> AABB_join(a.aabb, b.aabb)]

BucketIds == 0..(NUM_BUCKETS - 1)

\* A variant of bucket_num: NUM_BUCKETS without the 0.01 taken off.
bucket_num_no_fudge(center, centroid_min, split_axis_size) ==
  (NUM_BUCKETS * 100 * (center - centroid_min)) \div (100 * split_axis_size)

\* (bucket_num_relative * (NUM_BUCKETS as f32 - 0.01)) as usize, where
\* bucket_num_relative = (center - centroid_min) / split_axis_size.
bucket_num(center, centroid_min, split_axis_size) ==
  ((NUM_BUCKETS * 100 - 1) * (center - centroid_min)) \div (100 * split_axis_size)

\* The loop `for idx in &indices` that fills the buckets.  st.ok turns false at
\* the first bucket number outside the array, where `buckets[bucket_num]` panics.
RECURSIVE assign_loop(_, _, _, _, _)
assign_loop(shps, indices, split_axis, centroid_bounds, st) ==
  IF indices = <<>> \/ ~st.ok THEN st
  ELSE
    LET idx == Head(indices)
        shape_aabb == shape_aabb_of(shps, idx)
        shape_center == AABB_center(shape_aabb)
        split_axis_size == centroid_bounds.max[split_axis] - centroid_bounds.min[split_axis]
        b == bucket_num(shape_center[split_axis], centroid_bounds.min[split_axis],
                        split_axis_size)
    IN  IF b \notin BucketIds
        THEN [st EXCEPT !.ok = FALSE, !.bucket_nums = Append(@, b)]
        ELSE With([st EXCEPT !.buckets[b] = Bucket_add_aabb(@, shape_aabb),
                             !.bucket_assignments[b] = Append(@, idx),
                             !.bucket_nums = Append(@, b)],
                  LAMBDA next :
                    assign_loop(shps, Tail(indices), split_axis, centroid_bounds, next))

\* buckets.iter().take(hi + 1).skip(lo).fold(Bucket::empty(), join_bucket)
RECURSIVE fold_buckets(_, _, _)
fold_buckets(buckets, lo, hi) ==
  IF lo > hi THEN Bucket_empty
  ELSE With(fold_buckets(buckets, lo, hi - 1),
            LAMBDA joined : join_bucket(joined, buckets[hi]))

\* The f32 cost (l.size * l.area + r.size * r.area) / bounds.area as a fraction.
\* It is not finite when the divisor is 0 (0/0 is NaN, x/0 is +inf) or when a
\* side is the empty box (infinite area; 0 * inf is NaN).
sah_cost(child_l, child_r, aabb_bounds) ==
  LET finite == /\ ~AABB_is_empty(child_l.aabb)
                /\ ~AABB_is_empty(child_r.aabb)
                /\ AABB_surface_area(aabb_bounds) # 0
  IN  [finite |-> finite,
       num |-> IF finite
               THEN child_l.size * AABB_surface_area(child_l.aabb)
                    + child_r.size * AABB_surface_area(child_r.aabb)
               ELSE 0,
       den |-> IF finite THEN AABB_surface_area(aabb_bounds) ELSE 1]

\* f32::INFINITY, the first min_cost.
cost_infinity == [finite |-> FALSE, num |-> 0, den |-> 1]

\* `cost < min_cost`: false for a NaN or infinite cost; min_cost is either
\* f32::INFINITY or a finite cost assigned earlier.
cost_less(cost, min_cost) ==
  /\ cost.finite
  /\ \/ ~min_cost.finite
     \/ cost.num * min_cost.den < min_cost.num * cost.den

\* The loop `for i in 0..(NUM_BUCKETS - 1)` that selects the split.
RECURSIVE split_loop(_, _, _, _)
split_loop(buckets, aabb_bounds, i, st) ==
  IF i > NUM_BUCKETS - 2 THEN st
  ELSE
    With(<<fold_buckets(buckets, 0, i), fold_buckets(buckets, i + 1, NUM_BUCKETS - 1)>>,
         LAMBDA children :
           With(sah_cost(children[1], children[2], aabb_bounds),
                LAMBDA cost :
                  With(IF cost_less(cost, st.min_cost)
                       THEN [min_bucket |-> i, min_cost |-> cost,
                             child_l_aabb |-> children[1].aabb,
                             child_r_aabb |-> children[2].aabb]
                       ELSE st,
                       LAMBDA next : split_loop(buckets, aabb_bounds, i + 1, next))))

\* The concatenation of bucket_assignments[lo..hi].
RECURSIVE append_buckets(_, _, _)
append_buckets(bucket_assignments, lo, hi) ==
  IF lo > hi THEN <<>>
  ELSE append_buckets(bucket_assignments, lo, hi - 1) \o bucket_assignments[hi]

\* A variant of child_l_indices: take(min_bucket), one bucket short.
child_l_indices_short(bucket_assignments, min_bucket) ==
  append_buckets(bucket_assignments, 0, min_bucket - 1)

\* A variant of child_l_indices: no take at all, every bucket.
child_l_indices_all(bucket_assignments, min_bucket) ==
  append_buckets(bucket_assignments, 0, NUM_BUCKETS - 1)

\* bucket_assignments.iter_mut().take(min_bucket + 1)
child_l_indices(bucket_assignments, min_bucket) ==
  append_buckets(bucket_assignments, 0, min_bucket)

\* A variant of child_r_indices: skip(min_bucket + 2), one bucket too many.
child_r_indices_skip(bucket_assignments, min_bucket) ==
  append_buckets(bucket_assignments, min_bucket + 2, NUM_BUCKETS - 1)

\* bucket_assignments.iter_mut().skip(min_bucket + 1)
child_r_indices(bucket_assignments, min_bucket) ==
  append_buckets(bucket_assignments, min_bucket + 1, NUM_BUCKETS - 1)

\* The Leaf a call returns.
build_leaf(indices) ==
  [kind |-> "Leaf", shapes |-> indices,
   child_l_aabb |-> AABB_empty, child_r_aabb |-> AABB_empty,
   child_l_indices |-> <<>>, child_r_indices |-> <<>>,
   split_axis |-> 0, bucket_nums |-> <<>>]

\* The binning step of a call: fill the buckets, select the split, and join
\* the index lists of each side.
build_split(shps, indices, split_axis, aabb_bounds, centroid_bounds) ==
  With(assign_loop(shps, indices, split_axis, centroid_bounds,
         [buckets |-> [b \in BucketIds |-> Bucket_empty],
          bucket_assignments |-> [b \in BucketIds |-> <<>>],
          bucket_nums |-> <<>>, ok |-> TRUE]),
       LAMBDA filled :
         IF ~filled.ok
         THEN [build_leaf(<<>>) EXCEPT
                 !.kind = "Panic", !.split_axis = split_axis,
                 !.bucket_nums = filled.bucket_nums]
         ELSE With(split_loop(filled.buckets, aabb_bounds, 0,
                     [min_bucket |-> 0, min_cost |-> cost_infinity,
                      child_l_aabb |-> AABB_empty, child_r_aabb |-> AABB_empty]),
                   LAMBDA split :
                     [kind |-> "Node", shapes |-> <<>>,
                      child_l_aabb |-> split.child_l_aabb,
                      child_r_aabb |-> split.child_r_aabb,
                      child_l_indices |->
                        child_l_indices(filled.bucket_assignments, split.min_bucket),
                      child_r_indices |->
                        child_r_indices(filled.bucket_assignments, split.min_bucket),
                      split_axis |-> split_axis,
                      bucket_nums |-> filled.bucket_nums]))

\* What one call build(shapes, indices) returns, before its recursive calls:
\* a Leaf, a Node with the index lists of its two recursive calls, or a Panic.
\* The source folds the convex hull before it tests indices.len(); a Leaf
\* does not depend on the hull, which is folded here only when it is used.
BVHNode_build(shps, indices) ==
  IF is_small(indices) THEN build_leaf(indices)
  ELSE
    With(convex_hull_loop(shps, indices, <<AABB_empty, AABB_empty>>),
         LAMBDA convex_hull :
           With(split_axis_of(convex_hull[2]),
                LAMBDA split_axis :
                  IF below_epsilon(convex_hull[2].max[split_axis]
                                   - convex_hull[2].min[split_axis])
                  THEN build_leaf(indices)
                  ELSE build_split(shps, indices, split_axis,
                                   convex_hull[1], convex_hull[2])))

-----------------------------------------------------------------------------
(* The state.                                                              *)

VARIABLES
  shapes,      \* the caller's shape collection, as the sequence of the shapes' boxes
  nodes,       \* the tree: node id -> node; the root is node 1
  stack,       \* the ids of the build calls not yet run, the next one first
  phase,       \* "init", "building", "built", "panicked", "traversing", "done"
  ray,         \* the ray of the current traversal
  tstack,      \* the ids of the traverse_recursive calls not yet run
  indices,     \* traverse's `indices`: the candidates collected so far
  hit_shapes   \* traverse's result, each shape reference as its index

vars == <<shapes, nodes, stack, phase, ray, tstack, indices, hit_shapes>>

\* The most nodes the tree is allowed to grow to before a build call is refused.
MaxNodes == 2 * MaxShapes + 2

\* A build call that was made and has not run yet.  Besides the fields of
\* BVHNode, a node keeps what its build call saw: the call's index list, its
\* split axis and the bucket number it computed for each index.
PendingNode(call_indices) ==
  [kind |-> "Pending", indices |-> call_indices, shapes |-> <<>>,
   child_l_aabb |-> AABB_empty, child_l |-> 0,
   child_r_aabb |-> AABB_empty, child_r |-> 0,
   split_axis |-> 0, bucket_nums |-> <<>>]

\* Before the caller has built anything.
Init ==
  /\ shapes = <<>>
  /\ nodes = <<>>
  /\ stack = <<>>
  /\ phase = "init"
  /\ ray = NoRay
  /\ tstack = <<>>
  /\ indices = <<>>
  /\ hit_shapes = <<>>

\* BVH::build(shapes), for a scene of one kind with up to MaxShapes shapes at
\* chosen positions: (0..shapes.len()).collect(), then the root call of
\* BVHNode::build.
BVH_build ==
  /\ phase = "init"
  /\ \E k \in Kinds, n \in 0..MaxShapes :
       \E pos \in [1..n -> Positions] :
         /\ shapes' = [i \in 1..n |-> ShapeBox(k, pos[i])]
         /\ nodes' = <<PendingNode([i \in 1..n |-> i - 1])>>
  /\ stack' = <<1>>
  /\ phase' = "building"
  /\ UNCHANGED <<ray, tstack, indices, hit_shapes>>

\* One call of BVHNode::build: the pending call on top of the stack.
BVHNode_build_call ==
  /\ phase = "building"
  /\ stack # <<>>
  /\ Len(nodes) + 2 <= MaxNodes
  /\ \E res \in {BVHNode_build(shapes, nodes[Head(stack)].indices)} :
     LET id == Head(stack)
         l == Len(nodes) + 1
         r == Len(nodes) + 2
         done == [nodes[id] EXCEPT !.kind = res.kind, !.shapes = res.shapes,
                                   !.child_l_aabb = res.child_l_aabb,
                                   !.child_r_aabb = res.child_r_aabb,
                                   !.child_l = IF res.kind = "Node" THEN l ELSE 0,
                                   !.child_r = IF res.kind = "Node" THEN r ELSE 0,
                                   !.split_axis = res.split_axis,
                                   !.bucket_nums = res.bucket_nums]
     IN  /\ nodes' = IF res.kind = "Node"
                     THEN [nodes EXCEPT ![id] = done]
                            \o <<PendingNode(res.child_l_indices),
                                 PendingNode(res.child_r_indices)>>
                     ELSE [nodes EXCEPT ![id] = done]
         /\ stack' = IF res.kind = "Node" THEN <<l, r>> \o Tail(stack) ELSE Tail(stack)
         /\ phase' = IF res.kind = "Panic" THEN "panicked"
                     ELSE IF res.kind = "Leaf" /\ Tail(stack) = <<>> THEN "built"
                     ELSE "building"
  /\ UNCHANGED <<shapes, ray, tstack, indices, hit_shapes>>

\* BVH::traverse, up to its call of root.traverse_recursive.
BVH_traverse ==
  /\ phase = "built"
  /\ \E r \in Rays : ray' = r
  /\ tstack' = <<1>>
  /\ indices' = <<>>
  /\ hit_shapes' = <<>>
  /\ phase' = "traversing"
  /\ UNCHANGED <<shapes, nodes, stack>>

\* A variant of traverse_children: the right child before the left.
traverse_children_right_first(r, n) ==
  (IF intersects_aabb(r, n.child_r_aabb) THEN <<n.child_r>> ELSE <<>>)
  \o (IF intersects_aabb(r, n.child_l_aabb) THEN <<n.child_l>> ELSE <<>>)

\* The recursive calls an inner node makes, in the order it makes them.
traverse_children(r, n) ==
  (IF intersects_aabb(r, n.child_l_aabb) THEN <<n.child_l>> ELSE <<>>)
  \o (IF intersects_aabb(r, n.child_r_aabb) THEN <<n.child_r>> ELSE <<>>)

\* One call of BVHNode::traverse_recursive: the call on top of the stack.
traverse_recursive ==
  /\ phase = "traversing"
  /\ tstack # <<>>
  /\ LET n == nodes[Head(tstack)]
     IN  IF n.kind = "Node"
         THEN /\ tstack' = traverse_children(ray, n) \o Tail(tstack)
              /\ indices' = indices
         ELSE /\ tstack' = Tail(tstack)
              /\ indices' = indices \o n.shapes
  /\ UNCHANGED <<shapes, nodes, stack, phase, ray, hit_shapes>>

\* BVH::traverse, after root.traverse_recursive returned: the exact filter.
BVH_traverse_filter ==
  /\ phase = "traversing"
  /\ tstack = <<>>
  /\ hit_shapes' = SelectSeq(indices,
                     LAMBDA index : intersects_aabb(ray, shape_aabb_of(shapes, index)))
  /\ phase' = "done"
  /\ UNCHANGED <<shapes, nodes, stack, ray, tstack, indices>>

Next ==
  \/ BVH_build
  \/ BVHNode_build_call
  \/ BVH_traverse
  \/ traverse_recursive
  \/ BVH_traverse_filter

Spec == Init /\ [][Next]_vars

\* A call that was made runs to completion: the code is synchronous, nothing
\* suspends a build or a traversal.  Whether the caller builds or traverses at
\* all is left open.
FairSpec ==
  /\ Spec
  /\ WF_vars(BVHNode_build_call)
  /\ WF_vars(traverse_recursive)
  /\ WF_vars(BVH_traverse_filter)

-----------------------------------------------------------------------------
(* Reading the tree and the scene, for the properties below.               *)

NodeIds == DOMAIN nodes

ShapeIds == 0..(Len(shapes) - 1)

\* The index lists of the leaves below node id, concatenated left to right.
RECURSIVE LeafConcat(_)
LeafConcat(id) ==
  IF nodes[id].kind = "Node"
  THEN LeafConcat(nodes[id].child_l) \o LeafConcat(nodes[id].child_r)
  ELSE nodes[id].shapes

\* How often x occurs in seq.
Occurrences(seq, x) == Cardinality({k \in DOMAIN seq : seq[k] = x})

Range(seq) == {seq[k] : k \in DOMAIN seq}

SetMin(S) == CHOOSE x \in S : \A y \in S : x <= y
SetMax(S) == CHOOSE x \in S : \A y \in S : x >= y

\* The (doubled) centre coordinate of shape idx on axis a.
Centroid(idx, a) == shapes[idx + 1].min[a] + shapes[idx + 1].max[a]

\* The (doubled) spread of the centres of the shapes of seq on axis a.
CentroidSpread(seq, a) ==
  SetMax({Centroid(seq[k], a) : k \in DOMAIN seq})
  - SetMin({Centroid(seq[k], a) : k \in DOMAIN seq})

\* The smallest box around the boxes of a non-empty set S of shapes.
HullOf(S) ==
  [min |-> [a \in Axes |-> SetMin({shapes[i + 1].min[a] : i \in S})],
   max |-> [a \in Axes |-> SetMax({shapes[i + 1].max[a] : i \in S})]]

\* The shapes whose own box the ray r intersects: the brute-force scan.
BruteForce(r) == {i \in ShapeIds : intersects_aabb(r, shapes[i + 1])}

\* A node whose build call went through the binning step.
Binned(id) == nodes[id].kind = "Node"

\* The positions of node id's index list that its call put in buckets lo..hi.
InBuckets(id, lo, hi) ==
  {k \in DOMAIN nodes[id].indices :
     lo <= nodes[id].bucket_nums[k] /\ nodes[id].bucket_nums[k] <= hi}

\* The indices of node id's call in buckets lo..hi, bucket by bucket, each
\* bucket in the order of the call's index list.
RECURSIVE BucketConcat(_, _, _)
BucketConcat(id, lo, hi) ==
  IF lo > hi THEN <<>>
  ELSE BucketConcat(id, lo, hi - 1)
       \o SelectSeq(nodes[id].indices,
            LAMBDA x : \E k \in InBuckets(id, hi, hi) : nodes[id].indices[k] = x)

\* The SAH cost of candidate i of node id, times the surface area of the
\* call's whole box (the same divisor for every candidate).
CandidateCost(id, i) ==
  LET L == {nodes[id].indices[k] : k \in InBuckets(id, 0, i)}
      R == {nodes[id].indices[k] : k \in InBuckets(id, i + 1, NUM_BUCKETS - 1)}
  IN  (IF L = {} THEN 0 ELSE Cardinality(InBuckets(id, 0, i)) * AABB_surface_area(HullOf(L)))
      + (IF R = {} THEN 0
         ELSE Cardinality(InBuckets(id, i + 1, NUM_BUCKETS - 1)) * AABB_surface_area(HullOf(R)))

\* The lowest-numbered candidate of minimal cost.
BestCandidate(id) ==
  SetMin({i \in 0..(NUM_BUCKETS - 2) :
            \A j \in 0..(NUM_BUCKETS - 2) : CandidateCost(id, i) <= CandidateCost(id, j)})

\* The index sequence a depth-first, left-before-right walk from node id
\* collects when it enters exactly the children whose stored bounds r hits.
RECURSIVE Walk(_, _)
Walk(id, r) ==
  IF nodes[id].kind = "Node"
  THEN (IF intersects_aabb(r, nodes[id].child_l_aabb) THEN Walk(nodes[id].child_l, r) ELSE <<>>)
       \o (IF intersects_aabb(r, nodes[id].child_r_aabb) THEN Walk(nodes[id].child_r, r) ELSE <<>>)
  ELSE nodes[id].shapes

\* The number of nodes of the subtree of node id.
RECURSIVE SubtreeSize(_)
SubtreeSize(id) ==
  IF nodes[id].kind = "Node"
  THEN 1 + SubtreeSize(nodes[id].child_l) + SubtreeSize(nodes[id].child_r)
  ELSE 1

\* What is left of a build: for each pending call, an odd number that grows
\* with its index list, so that two calls on a proper split weigh less than one.
RECURSIVE PendingWeight(_)
PendingWeight(ids) ==
  IF ids = <<>> THEN 0
  ELSE Max2(1, 2 * Len(nodes[Head(ids)].indices) - 1) + PendingWeight(Tail(ids))

BuildMeasure == PendingWeight(stack)

\* What is left of a traversal: the nodes below the calls not yet run, and
\* the final filter.
RECURSIVE TraverseWeight(_)
TraverseWeight(ids) ==
  IF ids = <<>> THEN 0 ELSE SubtreeSize(Head(ids)) + TraverseWeight(Tail(ids))

TraverseMeasure == (IF phase = "traversing" THEN 1 ELSE 0) + TraverseWeight(tstack)

\* Where x stands in seq.
PositionOf(seq, x) == CHOOSE k \in DOMAIN seq : seq[k] = x

-----------------------------------------------------------------------------
(* The properties.                                                         *)

\* C1: in the tree build returns, the index lists of the leaves hold every
\* input index exactly once; and below every node, the leaves hold exactly the
\* indices its build call was given, each as often as given.
C1_PartitionComplete ==
  phase = "built" =>
    /\ Len(LeafConcat(1)) = Len(shapes)
    /\ \A i \in ShapeIds : Occurrences(LeafConcat(1), i) = 1
    /\ \A id \in NodeIds : \A i \in ShapeIds :
         Occurrences(LeafConcat(id), i) = Occurrences(nodes[id].indices, i)

\* A built tree with an inner node below an inner node.
C1_Witness ==
  /\ phase = "built"
  /\ \E id \in NodeIds :
       /\ nodes[id].kind = "Node"
       /\ \/ nodes[nodes[id].child_l].kind = "Node"
          \/ nodes[nodes[id].child_r].kind = "Node"

\* C2: traverse returns exactly the shapes whose own box the ray intersects,
\* the set the brute-force scan returns.
C2_TraversalExact ==
  phase = "done" => Range(hit_shapes) = BruteForce(ray)

\* C3: the stored bounds of each child of an inner node contain the box of
\* every shape in the leaves below that child.
C3_Containment ==
  phase = "built" =>
    \A id \in NodeIds : nodes[id].kind = "Node" =>
      /\ \A i \in Range(LeafConcat(nodes[id].child_l)) :
           AABB_contains(nodes[id].child_l_aabb, shapes[i + 1])
      /\ \A i \in Range(LeafConcat(nodes[id].child_r)) :
           AABB_contains(nodes[id].child_r_aabb, shapes[i + 1])

\* C4: a build never panics, and it and a traversal stop.  While a build
\* runs there is a pending call that can run, every call of build lowers
\* BuildMeasure and every step of a traversal lowers TraverseMeasure; both are
\* natural numbers, so after at most that many calls the build has returned a
\* tree and the traversal its result.
C4_Termination ==
  /\ [](phase # "panicked")
  /\ [](phase = "building" => (stack # <<>> /\ Len(nodes) + 2 <= MaxNodes))
  /\ [][phase = "building" => (BuildMeasure' < BuildMeasure /\ BuildMeasure' >= 0)]_vars
  /\ [][phase = "traversing" =>
         (TraverseMeasure' < TraverseMeasure /\ TraverseMeasure' >= 0)]_vars

\* C4, as the behaviours of FairSpec show it: a build that was called returns
\* a tree, and a traversal that was called returns.
C4_EventuallyReturns ==
  /\ (phase = "building") ~> (phase = "built")
  /\ (phase = "traversing") ~> (phase = "done")

\* A traversal returned from a tree whose build recursed twice.
C4_Witness ==
  /\ phase = "done"
  /\ Len(nodes) >= 5
  /\ Len(indices) > 0

\* C5: a build call with 5 or fewer indices returns a Leaf with the call's
\* index list unchanged; 5 or fewer shapes give a tree of one leaf; the empty
\* collection gives an empty leaf and an empty traversal result.
C5_SmallInputIsLeaf ==
  /\ phase \in {"building", "built"} =>
       \A id \in NodeIds :
         (nodes[id].kind # "Pending" /\ Len(nodes[id].indices) <= 5) =>
           /\ nodes[id].kind = "Leaf"
           /\ nodes[id].shapes = nodes[id].indices
  /\ (Len(shapes) <= 5 /\ phase = "built") =>
       /\ Len(nodes) = 1
       /\ nodes[1].shapes = [k \in 1..Len(shapes) |-> k - 1]
  /\ (Len(shapes) = 0 /\ phase = "done") => hit_shapes = <<>>

\* Five shapes whose centres are spread, built into one leaf and traversed.
C5_Witness ==
  /\ phase = "done"
  /\ Len(shapes) = 5
  /\ \E a \in Axes : CentroidSpread(nodes[1].indices, a) > 0
  /\ nodes[1].kind = "Leaf"

\* C6: a leaf holds at most 5 indices, or the centres of its shapes are
\* spread by less than EPSILON on every axis.
C6_LeafTermination ==
  phase \in {"building", "built"} =>
  \A id \in NodeIds : nodes[id].kind = "Leaf" =>
    \/ Len(nodes[id].shapes) <= 5
    \/ \A a \in Axes :
         CentroidSpread(nodes[id].shapes, a) * EPSILON_DEN < 2 * EPSILON_NUM

\* A leaf of more than 5 indices.
C6_Witness ==
  \E id \in NodeIds : nodes[id].kind = "Leaf" /\ Len(nodes[id].shapes) > 5

\* C7: an inner node splits at the lowest-numbered candidate of minimal SAH
\* cost; its left child is built from the indices of the buckets up to that
\* candidate, its right child from the others; and its stored bounds are the
\* unions of the boxes on each side.
C7_SplitChoice ==
  phase \in {"building", "built"} =>
  \A id \in NodeIds : Binned(id) =>
    LET i == BestCandidate(id)
    IN  /\ nodes[nodes[id].child_l].indices = BucketConcat(id, 0, i)
        /\ nodes[nodes[id].child_r].indices = BucketConcat(id, i + 1, NUM_BUCKETS - 1)
        /\ nodes[id].child_l_aabb = HullOf(Range(BucketConcat(id, 0, i)))
        /\ nodes[id].child_r_aabb = HullOf(Range(BucketConcat(id, i + 1, NUM_BUCKETS - 1)))

\* C8: no bucket access is out of range: every bucket number a binning step
\* computes is in 0..NUM_BUCKETS-1, and a shape whose centre is at the maximum
\* of the centroid box gets bucket NUM_BUCKETS-1.
C8_BucketInRange ==
  /\ phase # "panicked"
  /\ phase \in {"building", "built"} =>
     \A id \in NodeIds : nodes[id].kind = "Node" =>
       /\ Len(nodes[id].bucket_nums) = Len(nodes[id].indices)
       /\ \A k \in DOMAIN nodes[id].bucket_nums :
            /\ nodes[id].bucket_nums[k] \in 0..(NUM_BUCKETS - 1)
            /\ (Centroid(nodes[id].indices[k], nodes[id].split_axis)
                  = SetMax({Centroid(nodes[id].indices[j], nodes[id].split_axis) :
                              j \in DOMAIN nodes[id].indices}))
               => nodes[id].bucket_nums[k] = NUM_BUCKETS - 1

\* A binning step that used a bucket other than the first and the last.
C8_Witness ==
  \E id \in NodeIds :
    /\ nodes[id].kind = "Node"
    /\ \E k \in DOMAIN nodes[id].bucket_nums :
         nodes[id].bucket_nums[k] \notin {0, NUM_BUCKETS - 1}

\* C9: traverse_recursive collects the index lists of the leaves a
\* depth-first, left-before-right walk reaches through hit bounds, and
\* traverse returns its shapes in the order they were collected.
C9_TraversalOrder ==
  phase = "done" =>
    /\ indices = Walk(1, ray)
    /\ Range(hit_shapes) \subseteq Range(indices)
    /\ \A p \in 1..(Len(hit_shapes) - 1) :
         PositionOf(indices, hit_shapes[p]) < PositionOf(indices, hit_shapes[p + 1])

\* A traversal that entered both children of the root and returned shapes of both.
C9_Witness ==
  /\ phase = "done"
  /\ nodes[1].kind = "Node"
  /\ intersects_aabb(ray, nodes[1].child_l_aabb)
  /\ intersects_aabb(ray, nodes[1].child_r_aabb)
  /\ Range(hit_shapes) \cap Range(LeafConcat(nodes[1].child_l)) # {}
  /\ Range(hit_shapes) \cap Range(LeafConcat(nodes[1].child_r)) # {}

\* C10: both recursive calls of an inner node get at least one index and
\* fewer than the node's own call; the shape of minimal centre is in bucket 0
\* and the shape of maximal centre in bucket NUM_BUCKETS-1.
C10_BothSidesShrink ==
  phase \in {"building", "built"} =>
  \A id \in NodeIds : nodes[id].kind = "Node" =>
    LET n == nodes[id]
        cs == {Centroid(n.indices[j], n.split_axis) : j \in DOMAIN n.indices}
    IN  /\ Len(nodes[n.child_l].indices) >= 1
        /\ Len(nodes[n.child_r].indices) >= 1
        /\ Len(nodes[n.child_l].indices) < Len(n.indices)
        /\ Len(nodes[n.child_r].indices) < Len(n.indices)
        /\ \A k \in DOMAIN n.indices :
             /\ Centroid(n.indices[k], n.split_axis) = SetMin(cs) => n.bucket_nums[k] = 0
             /\ Centroid(n.indices[k], n.split_axis) = SetMax(cs)
                  => n.bucket_nums[k] = NUM_BUCKETS - 1

\* An inner node one of whose recursive calls got a single index.
C10_Witness ==
  \E id \in NodeIds :
    /\ nodes[id].kind = "Node"
    /\ \/ Len(nodes[nodes[id].child_l].indices) = 1
       \/ Len(nodes[nodes[id].child_r].indices) = 1

====
